---- MODULE Spec2Model ----
(***************************************************************************)
(* Model of the lecture-transcription pipeline (Peng-Rao/transcription):   *)
(* the subtitle codec, the transcript normalizer, the document generator,  *)
(* the pipeline orchestrator and the batch command.                        *)
(*                                                                         *)
(* Text is a TLA+ string, i.e. a sequence of characters: Len, \o and       *)
(* SubSeq act on it, and the Python string operations the code uses        *)
(* (strip, split, join, replace, format) are computed as the code computes *)
(* them.                                                                   *)
(***************************************************************************)
EXTENDS Integers, Sequences, FiniteSets, TLC

(***************************************************************************)
(* Bounds of the model.                                                    *)
(***************************************************************************)
\* segments in one transcription result (codec specification)
MaxSegs == 2

\* characters in one segment text (codec specification)
MaxTextLen == 4

\* blank-line-separated blocks in one generator input (generator specification)
MaxBlocks == 6

\* video files in the input directory of a batch (pipeline specification)
MaxVideos == 2

\* sentences given to _create_paragraphs (paragraph specification)
MaxSentences == 7

\* pieces of one raw text (normalizer specification)
MaxPieces == 2

(***************************************************************************)
(* Python string primitives.                                               *)
(***************************************************************************)
\* s[i] (1-based)
Ch(s, i) == SubSeq(s, i, i)

\* str.isspace() on one character
IsSpace(c) == c \in {" ", "\n", "\t"}

RECURSIVE LStrip(_)
LStrip(s) ==
    IF Len(s) = 0 THEN ""
    ELSE IF IsSpace(Ch(s, 1)) THEN LStrip(SubSeq(s, 2, Len(s))) ELSE s

RECURSIVE RStrip(_)
RStrip(s) ==
    IF Len(s) = 0 THEN ""
    ELSE IF IsSpace(Ch(s, Len(s))) THEN RStrip(SubSeq(s, 1, Len(s) - 1)) ELSE s

\* str.strip()
Strip(s) == RStrip(LStrip(s))

\* s[i-1:].startswith(sep)
StartsWithAt(s, i, sep) ==
    /\ i + Len(sep) - 1 <= Len(s)
    /\ SubSeq(s, i, i + Len(sep) - 1) = sep

\* the least element of a non-empty set of integers
SetMin(S) == CHOOSE x \in S : \A y \in S : x <= y

\* s.find(sub, i-1) + 1: the first position >= i where sub occurs, 0 if none
Find(s, sub, i) ==
    LET hits == {j \in i..Len(s) : StartsWithAt(s, j, sub)}
    IN IF hits = {} THEN 0 ELSE SetMin(hits)

\* str.split(sep) with an explicit separator: leftmost, non-overlapping
RECURSIVE SplitFrom(_, _, _)
SplitFrom(s, sep, i) ==
    LET j == Find(s, sep, i)
    IN IF j = 0 THEN <<SubSeq(s, i, Len(s))>>
       ELSE <<SubSeq(s, i, j - 1)>> \o SplitFrom(s, sep, j + Len(sep))

Split(s, sep) == SplitFrom(s, sep, 1)

\* sep.join(parts)
RECURSIVE Join(_, _)
Join(sep, parts) ==
    IF Len(parts) = 0 THEN ""
    ELSE IF Len(parts) = 1 THEN parts[1]
    ELSE parts[1] \o sep \o Join(sep, Tail(parts))

\* str.replace(old, new): every non-overlapping occurrence, left to right
RECURSIVE ReplaceFrom(_, _, _, _)
ReplaceFrom(s, old, new, i) ==
    LET j == Find(s, old, i)
    IN IF j = 0 THEN SubSeq(s, i, Len(s))
       ELSE SubSeq(s, i, j - 1) \o new \o ReplaceFrom(s, old, new, j + Len(old))

Replace(s, old, new) == ReplaceFrom(s, old, new, 1)

\* sub in s
Contains(s, sub) == Find(s, sub, 1) > 0

\* s.count(sub): non-overlapping occurrences
RECURSIVE CountFrom(_, _, _)
CountFrom(s, sub, i) ==
    LET j == Find(s, sub, i)
    IN IF j = 0 THEN 0 ELSE 1 + CountFrom(s, sub, j + Len(sub))

Count(s, sub) == CountFrom(s, sub, 1)

DigitChar(d) == <<"0", "1", "2", "3", "4", "5", "6", "7", "8", "9">>[d + 1]

\* str(n) for n >= 0
RECURSIVE Digits(_)
Digits(n) ==
    IF n < 10 THEN DigitChar(n)
    ELSE Digits(n \div 10) \o DigitChar(n % 10)

\* f"{n:0wd}" applied to str(n): zero-padded to at least w digits
RECURSIVE ZeroPad(_, _)
ZeroPad(ds, w) == IF Len(ds) >= w THEN ds ELSE ZeroPad("0" \o ds, w)

\* all strings over the characters A of length at most n
RECURSIVE StringsUpTo(_, _)
StringsUpTo(A, n) ==
    IF n = 0 THEN {""}
    ELSE LET shorter == StringsUpTo(A, n - 1)
         IN shorter \cup {s \o c : s \in shorter, c \in A}

\* all sequences over S of length at most n
RECURSIVE SeqsUpTo(_, _)
SeqsUpTo(S, n) ==
    IF n = 0 THEN {<<>>}
    ELSE LET shorter == SeqsUpTo(S, n - 1)
         IN shorter \cup {Append(s, x) : s \in shorter, x \in S}

\* a file: absent, or present with a content
NoFile == [exists |-> FALSE, content |-> ""]

File(content) == [exists |-> TRUE, content |-> content]

(***************************************************************************)
(* Subtitle codec (transcriber.py).  A seconds value (a float) is held as   *)
(* the number of its half milliseconds, so that a value can lie between    *)
(* two milliseconds; the rounding error of float arithmetic is left out.   *)
(***************************************************************************)
MsPerSecond == 1000

\* the units of a seconds value in one second
UnitsPerSecond == 2000

\* Transcriber._seconds_to_srt_time
_seconds_to_srt_time(seconds) ==
    LET hours == seconds \div (3600 * UnitsPerSecond)
        minutes == (seconds % (3600 * UnitsPerSecond)) \div (60 * UnitsPerSecond)
        secs == (seconds % (60 * UnitsPerSecond)) \div UnitsPerSecond
        fraction == seconds - (seconds \div UnitsPerSecond) * UnitsPerSecond
        milliseconds == (fraction * MsPerSecond) \div UnitsPerSecond
    IN ZeroPad(Digits(hours), 2) \o ":" \o ZeroPad(Digits(minutes), 2)
         \o ":" \o ZeroPad(Digits(secs), 2) \o ","
         \o ZeroPad(Digits(milliseconds), 3)

\* The blocks the loop of _write_srt_from_segments writes: one record per
\* segment whose stripped text is non-empty; k is the value enumerate(segments, 1)
\* gives the segment, and it is the index written.
RECURSIVE SrtBlocksFrom(_, _)
SrtBlocksFrom(segments, k) ==
    IF k > Len(segments) THEN <<>>
    ELSE LET segment == segments[k]
             text == Strip(segment.text)
         IN IF text = ""
            THEN SrtBlocksFrom(segments, k + 1)
            ELSE <<[index |-> k,
                    start_time |-> _seconds_to_srt_time(segment.start),
                    end_time |-> _seconds_to_srt_time(segment.end),
                    text |-> text]>>
                 \o SrtBlocksFrom(segments, k + 1)

SrtBlocks(segments) == SrtBlocksFrom(segments, 1)

\* the three f.write calls for one block
RenderBlock(b) ==
    Digits(b.index) \o "\n"
      \o b.start_time \o " --> " \o b.end_time \o "\n"
      \o b.text \o "\n\n"

RECURSIVE RenderBlocks(_)
RenderBlocks(blocks) ==
    IF Len(blocks) = 0 THEN ""
    ELSE RenderBlock(Head(blocks)) \o RenderBlocks(Tail(blocks))

\* Transcriber._write_srt_from_segments: the content of the file written
_write_srt_from_segments(segments) == RenderBlocks(SrtBlocks(segments))

\* a block that counts as valid from two lines on
BlockTextFromTwoLines(block) ==
    LET lines == Split(Strip(block), "\n")
    IN IF Len(lines) >= 2
       THEN <<Join("\n", SubSeq(lines, 3, Len(lines)))>>
       ELSE <<>>

\* what one block contributes to text_lines: one text, or nothing
BlockText(block) ==
    LET lines == Split(Strip(block), "\n")
    IN IF Len(lines) >= 3
       THEN <<Join("\n", SubSeq(lines, 3, Len(lines)))>>
       ELSE <<>>

RECURSIVE BlockTexts(_)
BlockTexts(blocks) ==
    IF Len(blocks) = 0 THEN <<>>
    ELSE BlockText(Head(blocks)) \o BlockTexts(Tail(blocks))

\* Transcriber.extract_text_from_srt, on the content of an existing file
extract_text_from_srt(content) ==
    IF Strip(content) = "" THEN ""
    ELSE Join(" ", BlockTexts(Split(Strip(content), "\n\n")))

(***************************************************************************)
(* Document generator (latex_generator.py).                                *)
(***************************************************************************)
UpperLetters == "ABCDEFGHIJKLMNOPQRSTUVWXYZ"

LowerLetters == "abcdefghijklmnopqrstuvwxyz"

DigitLetters == "0123456789"

\* the position of character c in string s, 0 when absent
IndexOf(s, c) == Find(s, c, 1)

LowerChar(c) ==
    IF IndexOf(UpperLetters, c) > 0 THEN Ch(LowerLetters, IndexOf(UpperLetters, c)) ELSE c

\* str.lower()
RECURSIVE Lower(_)
Lower(s) ==
    IF Len(s) = 0 THEN "" ELSE LowerChar(Ch(s, 1)) \o Lower(SubSeq(s, 2, Len(s)))

WordChars ==
    {Ch(UpperLetters, i) : i \in 1..Len(UpperLetters)}
      \cup {Ch(LowerLetters, i) : i \in 1..Len(LowerLetters)}
      \cup {Ch(DigitLetters, i) : i \in 1..Len(DigitLetters)}
      \cup {"_"}

\* the regex class \w on one character
IsWordChar(c) == c \in WordChars

\* the regex assertion \b between s[i-1] and s[i] (1-based)
WordBoundaryAt(s, i) ==
    LET before == i > 1 /\ IsWordChar(Ch(s, i - 1))
        after == i <= Len(s) /\ IsWordChar(Ch(s, i))
    IN before # after

\* \bword\b matches s at position i, ignoring case (word is in lower case)
WordMatchAt(s, i, word) ==
    /\ i + Len(word) - 1 <= Len(s)
    /\ WordBoundaryAt(s, i)
    /\ WordBoundaryAt(s, i + Len(word))
    /\ Lower(SubSeq(s, i, i + Len(word) - 1)) = word

\* the alternation of the emphasis regex, in its order
BoldWords == <<"definition", "theorem", "important", "key", "main", "primary">>

\* the first alternative that matches at i, 0 when none does
RECURSIVE FirstMatchFrom(_, _, _, _)
FirstMatchFrom(s, i, words, k) ==
    IF k > Len(words) THEN 0
    ELSE IF WordMatchAt(s, i, words[k]) THEN k
    ELSE FirstMatchFrom(s, i, words, k + 1)

\* (every alternative starts with a word character, so a match starts at a \b)
FirstMatchAt(s, i, words, k) ==
    IF WordBoundaryAt(s, i) THEN FirstMatchFrom(s, i, words, k) ELSE 0

\* re.sub(r"\b(definition|...|primary)\b", r"\\textbf{\1}", s, flags=re.IGNORECASE)
RECURSIVE BoldFrom(_, _)
BoldFrom(s, i) ==
    LET hits == {j \in i..Len(s) : FirstMatchAt(s, j, BoldWords, 1) > 0}
    IN IF hits = {} THEN SubSeq(s, i, Len(s))
       ELSE LET j == SetMin(hits)
                k == FirstMatchAt(s, j, BoldWords, 1)
            IN SubSeq(s, i, j - 1)
                 \o "\\textbf{" \o SubSeq(s, j, j + Len(BoldWords[k]) - 1) \o "}"
                 \o BoldFrom(s, j + Len(BoldWords[k]))

\* LaTeXGenerator._format_paragraph_for_latex
_format_paragraph_for_latex(paragraph) ==
    LET p1 == Replace(paragraph, "&", "\\&")
        p2 == Replace(p1, "%", "\\%")
        p3 == Replace(p2, "$", "\\$")
        p4 == Replace(p3, "#", "\\#")
        p5 == Replace(p4, "_", "\\_")
        p6 == Replace(p5, "{", "\\{")
        p7 == Replace(p6, "}", "\\}")
    IN BoldFrom(p7, 1)

\* [p.strip() for p in parts if p.strip()]
RECURSIVE StrippedNonEmpty(_)
StrippedNonEmpty(parts) ==
    IF Len(parts) = 0 THEN <<>>
    ELSE (IF Strip(Head(parts)) = "" THEN <<>> ELSE <<Strip(Head(parts))>>)
         \o StrippedNonEmpty(Tail(parts))

\* paragraphs[:n]
Take(seq, n) == SubSeq(seq, 1, IF Len(seq) < n THEN Len(seq) ELSE n)

\* the number of paragraphs that become sections
SectionLimit == 5

\* the loop building body: sections i..Len(paras), numbered from i
RECURSIVE SectionsFrom(_, _)
SectionsFrom(paras, i) ==
    IF i > Len(paras) THEN ""
    ELSE "\\section{Topic " \o Digits(i) \o "}\n"
           \o _format_paragraph_for_latex(paras[i]) \o "\n\n"
           \o SectionsFrom(paras, i + 1)

\* template_latex.tex after template.format(title=, date=, body=)
LatexTemplateFormat(title, date, body) ==
    "\\documentclass{article}\n\\title{" \o title \o "}\n\\date{" \o date
      \o "}\n\\begin{document}\n\\maketitle\n" \o body \o "\\end{document}\n"

\* a template path that makes a section of every paragraph
TemplateNotesUnlimited(text, title, date) ==
    LatexTemplateFormat(title, date,
        SectionsFrom(StrippedNonEmpty(Split(text, "\n\n")), 1))

\* LaTeXGenerator._generate_template_notes, the template being readable
_generate_template_notes(text, title, date) ==
    LET paragraphs == StrippedNonEmpty(Split(text, "\n\n"))
        body == SectionsFrom(Take(paragraphs, SectionLimit), 1)
    IN LatexTemplateFormat(title, date, body)

\* the content of prompt_template.txt
PromptTemplate == "Write LaTeX notes titled {title} from this transcript:\n{text}\n"

\* LaTeXGenerator._create_prompt, the template being readable
_create_prompt(text, title) == PromptTemplate

\* What the remote authoring call can do: return a text, return a response
\* whose content is None, return a response without choices, or raise.
RemoteTexts == {"", "\\documentclass{article}\nAI notes\n"}

RemoteOutcomes ==
    {[kind |-> "text", content |-> c] : c \in RemoteTexts}
      \cup {[kind |-> k, content |-> ""] : k \in {"none", "malformed", "raises"}}

\* LaTeXGenerator._generate_with_deepseek: the value returned, or a raise
_generate_with_deepseek(outcome) ==
    IF outcome.kind \in {"malformed", "raises"}
    THEN [raised |-> TRUE, isNone |-> FALSE, content |-> ""]
    ELSE [raised |-> FALSE, isNone |-> outcome.kind = "none", content |-> outcome.content]

\* an except branch that re-raises instead of falling back
ExceptBranchReraise(text, title, date, latex_ok, file, called) ==
    [raised |-> TRUE, called |-> called, file |-> file]

\* the except branch of generate_notes (lines 45-49); file is the output
\* path's file when the exception was raised
ExceptBranch(text, title, date, latex_ok, file, called) ==
    IF latex_ok
    THEN [raised |-> FALSE, called |-> called,
          file |-> File(_generate_template_notes(text, title, date))]
    ELSE [raised |-> TRUE, called |-> called, file |-> file]

\* LaTeXGenerator.generate_notes: whether it raised, whether the remote
\* call was made, and the file at output_path afterwards.
generate_notes(text, title, client, prompt_ok, latex_ok, outcome, date, old_file) ==
    IF ~prompt_ok
    THEN [raised |-> TRUE, called |-> FALSE, file |-> old_file]
    ELSE IF client
    THEN LET r == _generate_with_deepseek(outcome)
         IN IF r.raised
            THEN ExceptBranch(text, title, date, latex_ok, old_file, TRUE)
            ELSE IF r.isNone
            \* open(output_path, "w") has truncated the file when f.write(None) raises
            THEN ExceptBranch(text, title, date, latex_ok, File(""), TRUE)
            ELSE [raised |-> FALSE, called |-> TRUE, file |-> File(r.content)]
    ELSE IF latex_ok
    THEN [raised |-> FALSE, called |-> FALSE,
          file |-> File(_generate_template_notes(text, title, date))]
    ELSE ExceptBranch(text, title, date, latex_ok, old_file, FALSE)

(***************************************************************************)
(* Transcript normalizer (text_processor.py).                              *)
(***************************************************************************)
\* The class of a character for the regexes of _clean_text: whitespace, word
\* character, or the character itself.
CharClass(c) == IF IsSpace(c) THEN "\\s" ELSE IF IsWordChar(c) THEN "\\w" ELSE c

\* the last position of the maximal run of one class that starts at i
RunEnd(s, i) ==
    LET stops == {j \in (i + 1)..Len(s) : CharClass(Ch(s, j)) # CharClass(Ch(s, i))}
    IN IF stops = {} THEN Len(s) ELSE SetMin(stops) - 1

\* s cut into its maximal runs of one class, from position i on
RECURSIVE RunsFrom(_, _)
RunsFrom(s, i) ==
    IF i > Len(s) THEN <<>>
    ELSE <<SubSeq(s, i, RunEnd(s, i))>> \o RunsFrom(s, RunEnd(s, i) + 1)

Runs(s) == RunsFrom(s, 1)

\* every character of s equals its first
AllSame(s) == \A i \in 1..Len(s) : Ch(s, i) = Ch(s, 1)

IsLetter(c) == IndexOf(UpperLetters, c) > 0 \/ IndexOf(LowerLetters, c) > 0

\* re.sub(r"\s+", " ", .) on one run
WsRun(r) == IF IsSpace(Ch(r, 1)) THEN " " ELSE r

\* re.sub(r"\b(\w)\1{2,}\b", r"\1\1", .) on one run
RepeatRun(r) ==
    IF IsWordChar(Ch(r, 1)) /\ Len(r) >= 3 /\ AllSame(r) THEN SubSeq(r, 1, 2) ELSE r

\* re.sub(r"\b[a-zA-Z]\b", "", .) on one run
LetterRun(r) == IF Len(r) = 1 /\ IsLetter(r) THEN "" ELSE r

\* re.sub(r"[,]{2,}", ",", .) on one run
CommaRun(r) == IF Ch(r, 1) = "," THEN "," ELSE r

\* re.sub(r"[.]{2,}", ".", .) on one run
PeriodRun(r) == IF Ch(r, 1) = "." THEN "." ELSE r

\* one substitution pass over the runs of a string
RECURSIVE SubRuns(_, _)
SubRuns(runs, pass) ==
    IF Len(runs) = 0 THEN ""
    ELSE (CASE pass = "ws" -> WsRun(Head(runs))
            [] pass = "repeat" -> RepeatRun(Head(runs))
            [] pass = "letter" -> LetterRun(Head(runs))
            [] pass = "comma" -> CommaRun(Head(runs))
            [] pass = "period" -> PeriodRun(Head(runs)))
         \o SubRuns(Tail(runs), pass)

SubPass(s, pass) == SubRuns(Runs(s), pass)

\* TextProcessor._clean_text
_clean_text(text) ==
    LET t1 == SubPass(text, "ws")
        t2 == SubPass(t1, "repeat")
        t3 == SubPass(t2, "letter")
        t4 == SubPass(t3, "comma")
        t5 == SubPass(t4, "period")
    IN Strip(t5)

\* filler_patterns, each a \b...\b alternation matched ignoring case
filler_patterns ==
    << <<"um", "uh", "ah", "er">>,
       <<"you know">>,
       <<"i mean">>,
       <<"basically">>,
       <<"actually">>,
       <<"okay so">>,
       <<"alright so">>,
       <<"so um">> >>

\* re.sub(pattern, "", s, flags=re.IGNORECASE) for one pattern
RECURSIVE RemoveWordsFrom(_, _, _)
RemoveWordsFrom(s, words, i) ==
    LET hits == {j \in i..Len(s) : FirstMatchAt(s, j, words, 1) > 0}
    IN IF hits = {} THEN SubSeq(s, i, Len(s))
       ELSE LET j == SetMin(hits)
                k == FirstMatchAt(s, j, words, 1)
            IN SubSeq(s, i, j - 1) \o RemoveWordsFrom(s, words, j + Len(words[k]))

\* the loop over filler_patterns, from pattern k on
RECURSIVE RemovePatterns(_, _)
RemovePatterns(s, k) ==
    IF k > Len(filler_patterns) THEN s
    ELSE RemovePatterns(RemoveWordsFrom(s, filler_patterns[k], 1), k + 1)

\* TextProcessor._remove_fillers
_remove_fillers(text) == Strip(SubPass(RemovePatterns(text, 1), "ws"))

\* nltk sent_tokenize on cleaned text: a sentence ends at a run of terminal
\* punctuation that is followed by a space, or at the end of the text.
IsTerminal(c) == c \in {".", "!", "?"}

SentenceBreaks(s) ==
    {j \in 1..(Len(s) - 1) : IsTerminal(Ch(s, j)) /\ Ch(s, j + 1) = " "}

RECURSIVE SentencesFrom(_, _)
SentencesFrom(s, i) ==
    LET breaks == {j \in SentenceBreaks(s) : j >= i}
    IN IF i > Len(s) THEN <<>>
       ELSE IF breaks = {} THEN <<SubSeq(s, i, Len(s))>>
       ELSE <<SubSeq(s, i, SetMin(breaks))>> \o SentencesFrom(s, SetMin(breaks) + 2)

sent_tokenize(text) == SentencesFrom(Strip(text), 1)

\* the non-empty elements of a sequence of strings
RECURSIVE NonEmpty(_)
NonEmpty(parts) ==
    IF Len(parts) = 0 THEN <<>>
    ELSE (IF Head(parts) = "" THEN <<>> ELSE <<Head(parts)>>) \o NonEmpty(Tail(parts))

\* str.split() of a text whose whitespace is single spaces
SplitWords(s) == NonEmpty(Split(s, " "))

\* the tokens of a run of one punctuation mark: the marks one by one, a
\* double hyphen being one token
RECURSIVE MarkTokens(_)
MarkTokens(r) ==
    IF Len(r) = 0 THEN <<>>
    ELSE IF StartsWithAt(r, 1, "--") THEN <<"--">> \o MarkTokens(SubSeq(r, 3, Len(r)))
    ELSE <<Ch(r, 1)>> \o MarkTokens(SubSeq(r, 2, Len(r)))

\* nltk word_tokenize: words and punctuation marks as separate tokens
RECURSIVE TokensOf(_)
TokensOf(runs) ==
    IF Len(runs) = 0 THEN <<>>
    ELSE (IF IsSpace(Ch(Head(runs), 1)) THEN <<>>
          ELSE IF IsWordChar(Ch(Head(runs), 1)) THEN <<Head(runs)>>
          ELSE MarkTokens(Head(runs)))
         \o TokensOf(Tail(runs))

word_tokenize(s) == TokensOf(Runs(s))

\* string.punctuation, before and after its grave accent (a character the
\* texts of the model do not contain)
PunctuationHead == "!\"#$%&'()*+,-./:;<=>?@[\\]^_"

PunctuationTail == "{|}~"

\* w in string.punctuation
InPunctuation(w) == Contains(PunctuationHead, w) \/ Contains(PunctuationTail, w)

\* nltk stopwords.words("english")
NltkStopWords ==
    {"i", "me", "my", "myself", "we", "our", "ours", "ourselves", "you", "your",
     "yours", "yourself", "yourselves", "he", "him", "his", "himself", "she",
     "her", "hers", "herself", "it", "its", "itself", "they", "them", "their",
     "theirs", "themselves", "what", "which", "who", "whom", "this", "that",
     "these", "those", "am", "is", "are", "was", "were", "be", "been", "being",
     "have", "has", "had", "having", "do", "does", "did", "doing", "a", "an",
     "the", "and", "but", "if", "or", "because", "as", "until", "while", "of",
     "at", "by", "for", "with", "about", "against", "between", "into",
     "through", "during", "before", "after", "above", "below", "to", "from",
     "up", "down", "in", "out", "on", "off", "over", "under", "again",
     "further", "then", "once", "here", "there", "when", "where", "why", "how",
     "all", "any", "both", "each", "few", "more", "most", "other", "some",
     "such", "no", "nor", "not", "only", "own", "same", "so", "than", "too",
     "very", "s", "t", "can", "will", "just", "don", "should", "now", "d",
     "ll", "m", "o", "re", "ve", "y"}

academic_stopwords ==
    {"um", "uh", "ah", "er", "you know", "like", "so", "okay", "alright",
     "well", "now", "today", "here"}

\* TextProcessor.stop_words
stop_words == NltkStopWords \cup academic_stopwords

\* the tokens that are neither stop words nor (substrings of) string.punctuation
RECURSIVE ContentWords(_)
ContentWords(words) ==
    IF Len(words) = 0 THEN <<>>
    ELSE (IF Head(words) \notin stop_words /\ ~InPunctuation(Head(words))
          THEN <<Head(words)>> ELSE <<>>)
         \o ContentWords(Tail(words))

EndsWithTerminal(s) == Len(s) > 0 /\ IsTerminal(Ch(s, Len(s)))

\* TextProcessor._process_sentence: <<sentence>>, or <<>> for None
_process_sentence(sentence) ==
    IF Len(ContentWords(word_tokenize(Lower(sentence)))) < 2 THEN <<>>
    ELSE IF EndsWithTerminal(Strip(sentence)) THEN <<Strip(sentence)>>
    ELSE <<Strip(sentence) \o ".">>

\* the loop of process_text over the sentences
RECURSIVE ProcessSentences(_)
ProcessSentences(sentences) ==
    IF Len(sentences) = 0 THEN <<>>
    ELSE (IF Len(SplitWords(Head(sentences))) < 3 THEN <<>>
          ELSE _process_sentence(Head(sentences)))
         \o ProcessSentences(Tail(sentences))

transition_words ==
    <<"now", "next", "moving on", "let's", "another", "furthermore", "however",
      "on the other hand", "in contrast", "meanwhile">>

\* a transition test that looks at the current sentence
TransitionInCurrent(current_sentence, next_sentence) ==
    \E k \in 1..Len(transition_words) : Contains(Lower(current_sentence), transition_words[k])

\* TextProcessor._is_topic_transition
_is_topic_transition(current_sentence, next_sentence) ==
    \E k \in 1..Len(transition_words) : Contains(Lower(next_sentence), transition_words[k])

\* the sentences a paragraph must hold before it can be closed
MinParagraph == 4

\* the loop of _create_paragraphs from sentence i on, current_paragraph being cur
RECURSIVE ParagraphsFrom(_, _, _)
ParagraphsFrom(sentences, i, cur) ==
    IF i > Len(sentences)
    THEN (IF Len(cur) > 0 THEN <<Join(" ", cur)>> ELSE <<>>)
    ELSE LET now == Append(cur, sentences[i])
         IN IF /\ Len(now) >= MinParagraph
               /\ \/ i = Len(sentences)
                  \/ _is_topic_transition(sentences[i],
                         IF i + 1 <= Len(sentences) THEN sentences[i + 1] ELSE "")
            THEN <<Join(" ", now)>> \o ParagraphsFrom(sentences, i + 1, <<>>)
            ELSE ParagraphsFrom(sentences, i + 1, now)

\* TextProcessor._create_paragraphs
_create_paragraphs(sentences) ==
    IF Len(sentences) = 0 THEN "" ELSE Join("\n\n", ParagraphsFrom(sentences, 1, <<>>))

\* the sentences process_text keeps
processed_sentences(text) ==
    ProcessSentences(sent_tokenize(_remove_fillers(_clean_text(text))))

\* TextProcessor.process_text
process_text(text) == _create_paragraphs(processed_sentences(text))

(***************************************************************************)
(* State.                                                                  *)
(***************************************************************************)
VARIABLES
    segments,       \* the segments of the transcription result being encoded
    srt_file,       \* the subtitle file the encoder writes
    written_index,  \* the index lines the encoder wrote, in order
    raw_text,       \* what extract_text_from_srt returned
    cpc,            \* position of the encode/decode run
    processed_text, \* the normalized text given to generate_notes
    title,          \* the title given to generate_notes
    client,         \* LaTeXGenerator.client is set (an API key was given)
    prompt_ok,      \* prompt_template.txt is readable
    latex_ok,       \* template_latex.tex is readable
    latex_file,     \* the file at generate_notes' output_path
    remote_prompts, \* the user prompts passed to the remote call, in order
    outcome_seen,   \* what the remote call did, when it was made
    date_seen,      \* the date the template path rendered
    gpc,            \* position of the generate_notes call
    video_files,    \* batch_process_cli: the video files found, in loop order
    keep_intermediates, \* --keep-intermediates
    disk,           \* the files of the output directory, by name
    vidx,           \* the position in video_files of the file being processed
    success_count,  \* batch_process_cli: success_count
    bpc,            \* position of batch_process_cli
    ppc,            \* position of the current process_lecture run
    stage_log,      \* the stages the current run has started, in order
    written,        \* the output files the current run has written
    run_status,     \* how the current run ended: returned, or the stage that raised
    attempts,       \* the positions of the files attempted, in order
    outcomes,       \* what the batch loop saw of each attempt: "ok" or "failed"
    sentences,      \* _create_paragraphs: the sentences it is given
    paragraph_text, \* _create_paragraphs: what it returned
    parpc,          \* position of the _create_paragraphs call
    norm_input,     \* process_text: the raw text it is given
    cleaned_text,   \* process_text: cleaned_text
    improved_text,  \* process_text: improved_text
    kept_sentences, \* process_text: processed_sentences
    final_text,     \* process_text: what it returned
    again_text,     \* what process_text returned when given final_text
    npc,            \* position of the process-text run
    template_only,  \* generate-latex: --template-only
    api_key_arg,    \* generate-latex: --api-key ("" when not given)
    api_key_env,    \* generate-latex: DEEPSEEK_API_KEY ("" when not set)
    seconds_a,      \* a seconds value given to _seconds_to_srt_time
    seconds_b,      \* a second one, not smaller
    timecode_a,     \* the timecode rendered for seconds_a
    timecode_b,     \* the timecode rendered for seconds_b
    tpc             \* position of the timecode run

codec_vars == <<segments, srt_file, written_index, raw_text, cpc>>

gen_vars == <<processed_text, title, client, prompt_ok, latex_ok, latex_file,
              remote_prompts, outcome_seen, date_seen, gpc>>

pipe_vars == <<video_files, keep_intermediates, disk, vidx, success_count, bpc,
               ppc, stage_log, written, run_status, attempts, outcomes>>

norm_vars == <<sentences, paragraph_text, parpc, norm_input, cleaned_text,
               improved_text, kept_sentences, final_text, again_text, npc>>

cli_vars == <<template_only, api_key_arg, api_key_env>>

time_vars == <<seconds_a, seconds_b, timecode_a, timecode_b, tpc>>

vars == <<codec_vars, gen_vars, pipe_vars, norm_vars, cli_vars, time_vars>>

(***************************************************************************)
(* Codec specification: a transcription result is encoded to a subtitle    *)
(* file (transcribe-audio), which is then decoded (--text-only).           *)
(***************************************************************************)
CodecChars == {"a", " ", "\n"}

\* (start, end) of a segment: 0.0 to 1.5 and 3.25 to 4.0 seconds
SegmentTimes == {<<0, 3000>>, <<6500, 8000>>}

SegmentSet ==
    {[start |-> t[1], end |-> t[2], text |-> x] :
        t \in SegmentTimes, x \in StringsUpTo(CodecChars, MaxTextLen)}

CodecIdle ==
    /\ segments = <<>>
    /\ srt_file = NoFile
    /\ written_index = <<>>
    /\ raw_text = ""
    /\ cpc = "off"

NoOutcome == [kind |-> "not called", content |-> ""]

GenIdle ==
    /\ processed_text = ""
    /\ title = ""
    /\ client = FALSE
    /\ prompt_ok = TRUE
    /\ latex_ok = TRUE
    /\ latex_file = NoFile
    /\ remote_prompts = <<>>
    /\ outcome_seen = NoOutcome
    /\ date_seen = ""
    /\ gpc = "off"

\* the video stems and extensions of the model
Stems == {"a", "b"}

\* the output files of process_lecture for a video stem
audio_path(stem) == stem \o "_audio.wav"

srt_path(stem) == stem \o "_subtitles.srt"

text_path(stem) == stem \o "_processed.txt"

latex_path(stem) == stem \o "_notes.tex"

Paths ==
    UNION {{audio_path(st), srt_path(st), text_path(st), latex_path(st)} : st \in Stems}

\* a file of the output directory: by is the attempt that wrote it last
NoEntry == [exists |-> FALSE, content |-> "", by |-> 0]

Entry(content, n) == [exists |-> TRUE, content |-> content, by |-> n]

PipeIdle ==
    /\ video_files = <<>>
    /\ keep_intermediates = FALSE
    /\ disk = [f \in Paths |-> NoEntry]
    /\ vidx = 0
    /\ success_count = 0
    /\ bpc = "off"
    /\ ppc = "off"
    /\ stage_log = <<>>
    /\ written = {}
    /\ run_status = "none"
    /\ attempts = <<>>
    /\ outcomes = <<>>

NormIdle ==
    /\ sentences = <<>>
    /\ paragraph_text = ""
    /\ parpc = "off"
    /\ norm_input = ""
    /\ cleaned_text = ""
    /\ improved_text = ""
    /\ kept_sentences = <<>>
    /\ final_text = ""
    /\ again_text = ""
    /\ npc = "off"

CliIdle ==
    /\ template_only = FALSE
    /\ api_key_arg = ""
    /\ api_key_env = ""

TimeIdle ==
    /\ seconds_a = 0
    /\ seconds_b = 0
    /\ timecode_a = ""
    /\ timecode_b = ""
    /\ tpc = "off"

InitCodec ==
    /\ GenIdle
    /\ PipeIdle
    /\ NormIdle
    /\ CliIdle
    /\ TimeIdle
    /\ segments \in SeqsUpTo(SegmentSet, MaxSegs)
    /\ srt_file = NoFile
    /\ written_index = <<>>
    /\ raw_text = ""
    /\ cpc = "encode"

\* _write_srt_from_segments(segments, srt_path)
WriteSrt ==
    /\ cpc = "encode"
    /\ srt_file' = File(_write_srt_from_segments(segments))
    /\ written_index' = [j \in 1..Len(SrtBlocks(segments)) |-> SrtBlocks(segments)[j].index]
    /\ cpc' = "decode"
    /\ UNCHANGED <<segments, raw_text, gen_vars, pipe_vars>>
    /\ UNCHANGED <<norm_vars, cli_vars, time_vars>>

\* extract_text_from_srt(srt_path)
ExtractText ==
    /\ cpc = "decode"
    /\ srt_file.exists
    /\ raw_text' = extract_text_from_srt(srt_file.content)
    /\ cpc' = "decoded"
    /\ UNCHANGED <<segments, srt_file, written_index, gen_vars, pipe_vars>>
    /\ UNCHANGED <<norm_vars, cli_vars, time_vars>>

NextCodec == WriteSrt \/ ExtractText

SpecCodec == InitCodec /\ [][NextCodec]_vars

\* the stripped texts of the segments that have one, in order
RECURSIVE NonEmptyTexts(_)
NonEmptyTexts(segs) ==
    IF Len(segs) = 0 THEN <<>>
    ELSE (IF Strip(Head(segs).text) = "" THEN <<>> ELSE <<Strip(Head(segs).text)>>)
         \o NonEmptyTexts(Tail(segs))

\* C4: the blocks the encoder emits are indexed exactly 1, 2, ..., k, where k
\* is the number of segments whose trimmed text is non-empty.
C4_ContiguousIndices ==
    cpc \in {"decode", "decoded"} =>
        written_index = [j \in 1..Len(NonEmptyTexts(segments)) |-> j]

\* C5: decoding the encoded subtitle text yields the trimmed non-empty segment
\* texts, in order, joined by single spaces (the empty string for no segments).
C5_RoundTrip ==
    cpc = "decoded" => raw_text = Join(" ", NonEmptyTexts(segments))

\* no segment text holds a blank line
NoBlankLine(segs) == \A j \in 1..Len(segs) : ~Contains(Strip(segs[j].text), "\n\n")

\* the round trip of the segment texts that hold no blank line
RoundTripWithoutBlankLine ==
    (cpc = "decoded" /\ NoBlankLine(segments)) =>
        raw_text = Join(" ", NonEmptyTexts(segments))

(***************************************************************************)
(* Generator specification: generate_notes is called once (generate-latex) *)
(* on a text, a title and a configuration drawn from bounded sets.         *)
(***************************************************************************)
\* The input texts: up to MaxBlocks blank-line-separated blocks, each a
\* paragraph that names its position or a blank block.
BlankBlocks == <<"", " ", "\t ">>

BlockAt(kind, j) ==
    IF kind = "para" THEN " Key&" \o Digits(j)
    ELSE BlankBlocks[(j % 3) + 1]

GenTexts ==
    {Join("\n\n", [j \in 1..Len(kinds) |-> BlockAt(kinds[j], j)]) :
        kinds \in SeqsUpTo({"para", "blank"}, MaxBlocks)}

GenTitles == {"Lecture Notes", "T"}

\* datetime.now().strftime("%B %d, %Y")
Dates == {"November 05, 2026", "January 01, 2027"}

\* (--api-key, DEEPSEEK_API_KEY): neither, the option, or the variable
KeySources == {<<"", "">>, <<"sk-arg", "">>, <<"", "sk-env">>}

\* generate_latex_cli, lines 183-187: the key given to LaTeXGenerator ("" for
\* None); --template-only only decides whether a warning is logged
ApiKeyOf(key_arg, key_env, only_template) == IF key_arg # "" THEN key_arg ELSE key_env

\* LaTeXGenerator.__init__: self.client is set when a key is given
ClientOf(api_key) == api_key # ""

InitGen ==
    /\ CodecIdle
    /\ PipeIdle
    /\ NormIdle
    /\ TimeIdle
    /\ processed_text \in GenTexts
    /\ title \in GenTitles
    /\ template_only \in BOOLEAN
    /\ \E keys \in KeySources :
         /\ api_key_arg = keys[1]
         /\ api_key_env = keys[2]
    /\ client = ClientOf(ApiKeyOf(api_key_arg, api_key_env, template_only))
    /\ prompt_ok \in BOOLEAN
    /\ latex_ok \in BOOLEAN
    /\ prompt_ok \/ latex_ok
    /\ latex_file = NoFile
    /\ remote_prompts = <<>>
    /\ outcome_seen = NoOutcome
    /\ date_seen = ""
    /\ gpc = "call"

\* generator.generate_notes(text, latex_path, args.title)
GenerateNotes ==
    /\ gpc = "call"
    /\ \E outcome \in RemoteOutcomes, date \in Dates :
         \E r \in {generate_notes(processed_text, title, client, prompt_ok, latex_ok,
                                  outcome, date, latex_file)} :
            /\ latex_file' = r.file
            /\ remote_prompts' =
                 IF r.called THEN Append(remote_prompts, _create_prompt(processed_text, title))
                 ELSE remote_prompts
            /\ outcome_seen' = IF r.called THEN outcome ELSE NoOutcome
            /\ date_seen' = date
            /\ gpc' = IF r.raised THEN "raised" ELSE "returned"
    /\ UNCHANGED <<processed_text, title, client, prompt_ok, latex_ok, codec_vars,
                   pipe_vars>>
    /\ UNCHANGED <<norm_vars, cli_vars, time_vars>>

NextGen == GenerateNotes

SpecGen == InitGen /\ [][NextGen]_vars

\* the document of the template path for the call's text, title and date
TemplateDocument == _generate_template_notes(processed_text, title, date_seen)

\* C1: with both template resources readable, generate_notes returns without
\* raising whatever the remote call does (text, malformed response, exception)
\* and with or without a client, and the output path then holds the remote
\* text when the call returned one and the template-fallback document otherwise.
C1_GenerateNotesTotal ==
    (gpc # "call" /\ prompt_ok /\ latex_ok) =>
        /\ gpc = "returned"
        /\ latex_file.exists
        /\ latex_file.content =
             IF client /\ outcome_seen.kind = "text"
             THEN outcome_seen.content
             ELSE TemplateDocument

\* C1 witness: the remote call failed and generate_notes returned with the
\* template-fallback document written
C1_Witness ==
    /\ gpc = "returned"
    /\ client
    /\ outcome_seen.kind \in {"none", "malformed", "raises"}
    /\ latex_file = File(TemplateDocument)

\* C2: for a non-empty input text the document written is non-empty, whatever
\* the authoring collaborator does.
C2_DocumentNonEmpty ==
    (gpc = "returned" /\ processed_text # "") => latex_file.content # ""

\* the prompt template with the title and the text substituted
RenderedPrompt(text, ttl) ==
    Replace(Replace(PromptTemplate, "{title}", ttl), "{text}", text)

\* C3: the user prompt passed to the remote call is the prompt template with
\* the title and the whole normalized text substituted into it, so that it
\* holds both verbatim.
C3_PromptSubstituted ==
    \A i \in 1..Len(remote_prompts) :
        /\ remote_prompts[i] = RenderedPrompt(processed_text, title)
        /\ Contains(remote_prompts[i], title)
        /\ Contains(remote_prompts[i], processed_text)

\* the non-empty blank-line-separated blocks of the input, trimmed
InputBlocks == StrippedNonEmpty(Split(processed_text, "\n\n"))

SectionOf(i) ==
    "\\section{Topic " \o Digits(i) \o "}\n"
      \o _format_paragraph_for_latex(InputBlocks[i]) \o "\n\n"

\* sections i..m, one after the other
RECURSIVE SectionsUpTo(_, _)
SectionsUpTo(i, m) ==
    IF i > m THEN "" ELSE SectionOf(i) \o SectionsUpTo(i + 1, m)

\* C10: when the remote call raises, the document written is the template
\* document with exactly min(5, n) sections, n the number of non-empty blocks
\* of the input: section i is headed "Topic i" and holds the i-th block, in
\* order, and the blocks after the fifth appear nowhere.
C10_FallbackSections ==
    (gpc = "returned" /\ client /\ outcome_seen.kind = "raises") =>
        LET n == Len(InputBlocks)
            m == IF n < 5 THEN n ELSE 5
        IN /\ latex_file.exists
           /\ latex_file.content =
                LatexTemplateFormat(title, date_seen, SectionsUpTo(1, m))
           /\ Count(latex_file.content, "\\section{") = m
           /\ \A j \in (m + 1)..n :
                ~Contains(latex_file.content, _format_paragraph_for_latex(InputBlocks[j]))

\* C10 witness: the remote call raised on an input of more than five blocks
C10_Witness ==
    /\ gpc = "returned"
    /\ client
    /\ outcome_seen.kind = "raises"
    /\ Len(InputBlocks) > 5
    /\ Count(latex_file.content, "\\section{Topic ") = 5

(***************************************************************************)
(* Pipeline specification: batch_process_cli runs process_lecture on each  *)
(* video file found; a run goes through its stages one step at a time.     *)
(***************************************************************************)
\* --extensions, the first two of its default
extensions == <<"mp4", "avi">>

VideoSet == {[stem |-> st, ext |-> extensions[k]] : st \in Stems, k \in 1..Len(extensions)}

ExtRank(ext) == CHOOSE k \in 1..Len(extensions) : extensions[k] = ext

\* The lists the glob loop (lines 244-246) can build from the directory dir:
\* the files of each extension, extension after extension.
GlobOrders(dir) ==
    {q \in SeqsUpTo(dir, MaxVideos) :
        /\ Len(q) = Cardinality(dir)
        /\ \A i, j \in 1..Len(q) : i < j =>
             /\ q[i] # q[j]
             /\ ExtRank(q[i].ext) <= ExtRank(q[j].ext)}

\* the date of the batch run
BatchDates == {"November 05, 2026"}

\* what Whisper can return for an audio file
Seg(t0, t1, text) == [start |-> t0, end |-> t1, text |-> text]

WhisperResults ==
    { <<>>,
      <<Seg(0, 3000, " ")>>,
      <<Seg(0, 3000, " Um you know."), Seg(3000, 6500, " uh ")>>,
      <<Seg(0, 3000, " The derivative is important."), Seg(3000, 6500, ""),
        Seg(6500, 8000, " Now we integrate it today")>> }

InitPipeline ==
    /\ CodecIdle
    /\ NormIdle
    /\ CliIdle
    /\ TimeIdle
    /\ processed_text = ""
    /\ title = ""
    /\ client \in BOOLEAN
    /\ prompt_ok \in BOOLEAN
    /\ latex_ok = prompt_ok
    /\ latex_file = NoFile
    /\ remote_prompts = <<>>
    /\ outcome_seen = NoOutcome
    /\ date_seen = ""
    /\ gpc = "off"
    /\ \E dir \in SUBSET VideoSet :
         /\ Cardinality(dir) <= MaxVideos
         /\ video_files \in GlobOrders(dir)
    /\ keep_intermediates \in BOOLEAN
    /\ disk = [f \in Paths |-> NoEntry]
    /\ vidx = 0
    /\ success_count = 0
    /\ bpc = "start"
    /\ ppc = "idle"
    /\ stage_log = <<>>
    /\ written = {}
    /\ run_status = "none"
    /\ attempts = <<>>
    /\ outcomes = <<>>

\* the stem of the file being processed (video_path.stem)
stem == video_files[vidx].stem

\* the stage of process_lecture that follows a stage
StageAfter(stage) ==
    CASE stage = "extract" -> "transcribe"
      [] stage = "transcribe" -> "normalize"
      [] stage = "normalize" -> "generate"
      [] stage = "generate" -> "cleanup"

\* a run that goes on whatever the stage did
NextPositionIgnoringFailure(stage, ok) == StageAfter(stage)

\* where process_lecture is after a stage: at the next stage, or out of the
\* function when the stage raised
NextPosition(stage, ok) == IF ok THEN StageAfter(stage) ELSE "idle"

\* a loop that counts every attempt
SuccessCountAlways(count, ok) == count + 1

\* success_count after an attempt (line 272 is skipped when the run raises)
SuccessCountAfter(count, ok) == IF ok THEN count + 1 ELSE count

\* the end of a stage of the current run
StageEnds(stage, ok) ==
    /\ stage_log' = Append(stage_log, stage)
    /\ ppc' = NextPosition(stage, ok)
    /\ run_status' = IF ok THEN "running" ELSE stage
    /\ outcomes' = IF ok THEN outcomes ELSE Append(outcomes, "failed")
    /\ success_count' = IF ok THEN success_count ELSE SuccessCountAfter(success_count, FALSE)

\* lines 248-250: no video file found
NoVideos ==
    /\ bpc = "start"
    /\ Len(video_files) = 0
    /\ bpc' = "none found"
    /\ UNCHANGED <<codec_vars, gen_vars, video_files, keep_intermediates, disk, vidx,
                   success_count, ppc, stage_log, written, run_status, attempts,
                   outcomes>>
    /\ UNCHANGED <<norm_vars, cli_vars, time_vars>>

\* lines 252-261: the processor is built and the loop is entered
StartBatch ==
    /\ bpc = "start"
    /\ Len(video_files) > 0
    /\ bpc' = "loop"
    /\ UNCHANGED <<codec_vars, gen_vars, video_files, keep_intermediates, disk, vidx,
                   success_count, ppc, stage_log, written, run_status, attempts,
                   outcomes>>
    /\ UNCHANGED <<norm_vars, cli_vars, time_vars>>

\* the loop takes the next file and calls process_lecture (lines 262-270, 45-52)
StartFile ==
    /\ bpc = "loop"
    /\ ppc = "idle"
    /\ vidx < Len(video_files)
    /\ vidx' = vidx + 1
    /\ attempts' = Append(attempts, vidx + 1)
    /\ ppc' = "extract"
    /\ stage_log' = <<>>
    /\ written' = {}
    /\ run_status' = "running"
    /\ segments' = <<>>
    /\ raw_text' = ""
    /\ processed_text' = ""
    /\ title' = ""
    /\ remote_prompts' = <<>>
    /\ outcome_seen' = NoOutcome
    /\ date_seen' = ""
    /\ UNCHANGED <<srt_file, written_index, cpc, client, prompt_ok, latex_ok, latex_file,
                   gpc, video_files, keep_intermediates, disk, success_count, bpc,
                   outcomes>>
    /\ UNCHANGED <<norm_vars, cli_vars, time_vars>>

\* Step 1: audio_extractor.extract_audio.  ffmpeg succeeds, or fails and may
\* leave an output file behind.
ExtractAudio ==
    /\ ppc = "extract"
    /\ \E ok \in BOOLEAN, leaves_file \in BOOLEAN :
         /\ ok => leaves_file
         /\ disk' = IF leaves_file
                    THEN [disk EXCEPT ![audio_path(stem)] = Entry("RIFF", vidx)]
                    ELSE disk
         /\ written' = IF leaves_file THEN written \cup {audio_path(stem)} ELSE written
         /\ StageEnds("extract", ok)
    /\ UNCHANGED <<codec_vars, gen_vars, video_files, keep_intermediates, vidx, bpc,
                   attempts>>
    /\ UNCHANGED <<norm_vars, cli_vars, time_vars>>

\* Transcriber.transcribe_to_srt, Whisper having returned segs: the content
\* of the subtitle file written
transcribe_to_srt(segs) ==
    IF Len(segs) = 0 THEN "" ELSE _write_srt_from_segments(segs)

\* Step 2: transcriber.transcribe_to_srt.  The audio file is there; Whisper
\* returns a result or raises.
Transcribe ==
    /\ ppc = "transcribe"
    /\ \E ok \in BOOLEAN, result \in WhisperResults :
         /\ ~disk[audio_path(stem)].exists => ~ok
         /\ segments' = IF ok THEN result ELSE segments
         /\ disk' = IF ok
                    THEN [disk EXCEPT ![srt_path(stem)] = Entry(transcribe_to_srt(result), vidx)]
                    ELSE disk
         /\ written' = IF ok THEN written \cup {srt_path(stem)} ELSE written
         /\ StageEnds("transcribe", ok)
    /\ UNCHANGED <<srt_file, written_index, raw_text, cpc, gen_vars, video_files,
                   keep_intermediates, vidx, bpc, attempts>>
    /\ UNCHANGED <<norm_vars, cli_vars, time_vars>>

\* Step 3: extract_text_from_srt, process_text and the write of the
\* processed text; the write (or the tokenizer) can fail.
Normalize ==
    /\ ppc = "normalize"
    /\ \E text \in {extract_text_from_srt(disk[srt_path(stem)].content)} :
       \E processed \in {process_text(text)} :
       \E ok \in BOOLEAN :
            /\ ~disk[srt_path(stem)].exists => ~ok
            /\ raw_text' = IF ok THEN text ELSE raw_text
            /\ processed_text' = IF ok THEN processed ELSE processed_text
            /\ disk' = IF ok
                       THEN [disk EXCEPT ![text_path(stem)] = Entry(processed, vidx)]
                       ELSE disk
            /\ written' = IF ok THEN written \cup {text_path(stem)} ELSE written
            /\ StageEnds("normalize", ok)
    /\ UNCHANGED <<segments, srt_file, written_index, cpc, title, client, prompt_ok,
                   latex_ok, latex_file, remote_prompts, outcome_seen, date_seen, gpc,
                   video_files, keep_intermediates, vidx, bpc, attempts>>
    /\ UNCHANGED <<norm_vars, cli_vars, time_vars>>

\* Step 4: latex_generator.generate_notes
Generate ==
    /\ ppc = "generate"
    /\ \E outcome \in RemoteOutcomes, date \in BatchDates :
         \E ttl \in {"Lecture Notes: " \o stem} :
         \E old \in {[exists |-> disk[latex_path(stem)].exists,
                      content |-> disk[latex_path(stem)].content]} :
         \E r \in {generate_notes(processed_text, ttl, client, prompt_ok, latex_ok,
                                  outcome, date, old)} :
         \E touched \in {r.file # old \/ ~r.raised} :
            /\ title' = ttl
            /\ disk' = IF touched
                       THEN [disk EXCEPT ![latex_path(stem)] = Entry(r.file.content, vidx)]
                       ELSE disk
            /\ written' = IF touched THEN written \cup {latex_path(stem)} ELSE written
            /\ remote_prompts' =
                 IF r.called THEN Append(remote_prompts, _create_prompt(processed_text, ttl))
                 ELSE remote_prompts
            /\ outcome_seen' = IF r.called THEN outcome ELSE NoOutcome
            /\ date_seen' = date
            /\ StageEnds("generate", ~r.raised)
    /\ UNCHANGED <<codec_vars, processed_text, client, prompt_ok, latex_ok, latex_file,
                   gpc, video_files, keep_intermediates, vidx, bpc, attempts>>
    /\ UNCHANGED <<norm_vars, cli_vars, time_vars>>

\* a cleanup that also unlinks the processed text
CleanupPathsWithText == {audio_path(stem), srt_path(stem), text_path(stem)}

\* the files the cleanup of process_lecture unlinks (lines 84-88)
CleanupPaths == {audio_path(stem), srt_path(stem)}

\* lines 83-91 and 271-272: the cleanup, the return, and the loop's count
Cleanup ==
    /\ ppc = "cleanup"
    /\ disk' = IF keep_intermediates THEN disk
               ELSE [f \in Paths |-> IF f \in CleanupPaths THEN NoEntry ELSE disk[f]]
    /\ ppc' = "idle"
    /\ run_status' = "returned"
    /\ outcomes' = Append(outcomes, "ok")
    /\ success_count' = SuccessCountAfter(success_count, TRUE)
    /\ UNCHANGED <<codec_vars, gen_vars, video_files, keep_intermediates, vidx, bpc,
                   stage_log, written, attempts>>
    /\ UNCHANGED <<norm_vars, cli_vars, time_vars>>

\* line 278: the loop is over and the count is printed
FinishBatch ==
    /\ bpc = "loop"
    /\ ppc = "idle"
    /\ vidx = Len(video_files)
    /\ bpc' = "done"
    /\ UNCHANGED <<codec_vars, gen_vars, video_files, keep_intermediates, disk, vidx,
                   success_count, ppc, stage_log, written, run_status, attempts,
                   outcomes>>
    /\ UNCHANGED <<norm_vars, cli_vars, time_vars>>

Next ==
    \/ NoVideos
    \/ StartBatch
    \/ StartFile
    \/ ExtractAudio
    \/ Transcribe
    \/ Normalize
    \/ Generate
    \/ Cleanup
    \/ FinishBatch

Init == InitPipeline

Spec == Init /\ [][Next]_vars

\* the stages of process_lecture, in the order of the code
StageOrder == <<"extract", "transcribe", "normalize", "generate">>

StageRank(stage) == CHOOSE k \in 1..Len(StageOrder) : StageOrder[k] = stage

IsStage(x) == \E k \in 1..Len(StageOrder) : StageOrder[k] = x

\* the artifact of a stage of the current run
ArtifactOf(stage) ==
    CASE stage = "extract" -> audio_path(stem)
      [] stage = "transcribe" -> srt_path(stem)
      [] stage = "normalize" -> text_path(stem)
      [] stage = "generate" -> latex_path(stem)

\* C6: a run goes through Extract, Transcribe, Normalize, Generate in that
\* order, each once; when a stage starts the artifacts of all the stages before
\* it are written; when a stage fails the run is over, the stage is the last
\* one started, no artifact of a later stage was written by the run, and the
\* batch loop has received the error.
C6_StagesInOrder ==
    vidx > 0 =>
        /\ stage_log = SubSeq(StageOrder, 1, Len(stage_log))
        /\ IsStage(ppc) =>
             /\ Len(stage_log) = StageRank(ppc) - 1
             /\ run_status = "running"
             /\ \A k \in 1..Len(stage_log) :
                  /\ ArtifactOf(StageOrder[k]) \in written
                  /\ disk[ArtifactOf(StageOrder[k])] .by = vidx
        /\ IsStage(run_status) =>
             /\ ppc = "idle"
             /\ Len(stage_log) = StageRank(run_status)
             /\ \A k \in (StageRank(run_status) + 1)..Len(StageOrder) :
                  ArtifactOf(StageOrder[k]) \notin written
             /\ Len(outcomes) = vidx
             /\ outcomes[vidx] = "failed"

\* C6 witness: the run failed in Normalize after Extract and Transcribe wrote
\* their artifacts
C6_Witness ==
    /\ vidx > 0
    /\ run_status = "normalize"
    /\ stage_log = <<"extract", "transcribe", "normalize">>
    /\ written = {audio_path(stem), srt_path(stem)}

\* C7: when a run has returned, the document and the processed text of its
\* video exist as the run wrote them, and the audio and the subtitle file both
\* exist when keep_intermediates is set and are both absent when it is not.
C7_ArtifactsAfterSuccess ==
    (vidx > 0 /\ ppc = "idle" /\ run_status = "returned") =>
        /\ disk[latex_path(stem)].exists
        /\ disk[latex_path(stem)].by = vidx
        /\ disk[text_path(stem)].exists
        /\ disk[text_path(stem)].by = vidx
        /\ disk[text_path(stem)].content = processed_text
        /\ disk[audio_path(stem)].exists = keep_intermediates
        /\ disk[srt_path(stem)].exists = keep_intermediates

\* C7 witness: a run returned with keep_intermediates off
C7_Witness ==
    /\ vidx > 0
    /\ ppc = "idle"
    /\ run_status = "returned"
    /\ ~keep_intermediates
    /\ processed_text # ""
    /\ ~disk[audio_path(stem)].exists

\* the number of runs of the batch that returned
OkCount == Cardinality({i \in 1..Len(outcomes) : outcomes[i] = "ok"})

\* C8: the files are attempted once each, in the order found; when the loop
\* is over every file has been attempted, whatever failed before it, and the
\* count reported is the number of runs that returned.
C8_BatchTolerant ==
    /\ attempts = [i \in 1..vidx |-> i]
    /\ bpc = "done" =>
         /\ vidx = Len(video_files)
         /\ Len(outcomes) = Len(video_files)
         /\ success_count = OkCount

\* C8 witness: the first file failed and the second one was processed
C8_Witness ==
    /\ bpc = "done"
    /\ outcomes = <<"failed", "ok">>
    /\ success_count = 1

\* C9: when Generate is over for a run whose transcription has no segment with
\* text, or whose normalization left no sentence, the subtitle file (in the
\* first case) and the processed text are empty and the document is the
\* template document with no section, with or without a client.
C9_EmptyViaTemplate ==
    (vidx > 0 /\ ppc = "cleanup") =>
        /\ NonEmptyTexts(segments) = <<>> =>
             /\ disk[srt_path(stem)].content = ""
             /\ processed_text = ""
        /\ processed_text = "" =>
             /\ disk[text_path(stem)].content = ""
             /\ disk[latex_path(stem)].content =
                  LatexTemplateFormat(title, date_seen, "")

(***************************************************************************)
(* Paragraph specification: _create_paragraphs is called once on a         *)
(* sequence of surviving sentences drawn from a bounded set.               *)
(***************************************************************************)
\* The sentence at position j: a plain one, one that starts with a transition
\* word, or one with a transition word inside another word ("know").
SentenceKinds == {"plain", "marked", "inside"}

SentenceAt(kind, j) ==
    CASE kind = "plain" -> "Point " \o Digits(j) \o " holds."
      [] kind = "marked" -> "Next point " \o Digits(j) \o " holds."
      [] kind = "inside" -> "We know point " \o Digits(j) \o "."

SentenceLists ==
    {[j \in 1..Len(kinds) |-> SentenceAt(kinds[j], j)] :
        kinds \in SeqsUpTo(SentenceKinds, MaxSentences)}

InitPara ==
    /\ CodecIdle
    /\ GenIdle
    /\ PipeIdle
    /\ CliIdle
    /\ TimeIdle
    /\ sentences \in SentenceLists
    /\ paragraph_text = ""
    /\ parpc = "call"
    /\ norm_input = ""
    /\ cleaned_text = ""
    /\ improved_text = ""
    /\ kept_sentences = <<>>
    /\ final_text = ""
    /\ again_text = ""
    /\ npc = "off"

\* self._create_paragraphs(processed_sentences)
CreateParagraphs ==
    /\ parpc = "call"
    /\ paragraph_text' = _create_paragraphs(sentences)
    /\ parpc' = "returned"
    /\ UNCHANGED <<sentences, norm_input, cleaned_text, improved_text, kept_sentences,
                   final_text, again_text, npc>>
    /\ UNCHANGED <<codec_vars, gen_vars, pipe_vars, cli_vars, time_vars>>

NextPara == CreateParagraphs

SpecPara == InitPara /\ [][NextPara]_vars

\* the paragraphs of the text returned
Paragraphs == IF paragraph_text = "" THEN <<>> ELSE Split(paragraph_text, "\n\n")

\* the number of sentences of a paragraph (each sentence of the
\* paragraph specification holds one period, its last character)
SentenceCount(paragraph) == Count(paragraph, ".")

\* the positions of the last sentences of the paragraphs paras, the one
\* before them ending at sentence e
RECURSIVE ParagraphEndsFrom(_, _)
ParagraphEndsFrom(paras, e) ==
    IF Len(paras) = 0 THEN {}
    ELSE LET f == e + SentenceCount(Head(paras))
         IN {f} \cup ParagraphEndsFrom(Tail(paras), f)

ParagraphEnds == ParagraphEndsFrom(Paragraphs, 0)

\* the sentences in the buffer once sentence i is appended, the paragraphs
\* ending at the positions ends
BufferAt(ends, i) ==
    LET before == {e \in ends : e < i}
    IN i - (IF before = {} THEN 0 ELSE CHOOSE e \in before : \A f \in before : f <= e)

\* sentence j holds a transition marker
HasMarker(j) ==
    \E k \in 1..Len(transition_words) : Contains(Lower(sentences[j]), transition_words[k])

C17_AtMostSixSentences ==
    parpc = "returned" =>
        \A k \in 1..Len(Paragraphs) : SentenceCount(Paragraphs[k]) <= 6

(***************************************************************************)
(* Normalizer specification: process-text is run on a raw text drawn from  *)
(* a bounded set, and then on the text it produced.                        *)
(***************************************************************************)
\* The raw texts: up to MaxPieces pieces, a space between them.  The pieces
\* are the two-word fillers, a sentence, words around a filler between
\* commas, a sentence of stop words, and one of stop words and dashes.
NormPieces ==
    {"I mean", "you know", "okay so", "alright so", "so um",
     "The derivative is important.", "Integration rules,um,apply here",
     "Now it is here.", "Now it is -- so -- here."}

NormTexts == {Join(" ", pieces) : pieces \in SeqsUpTo(NormPieces, MaxPieces)}

InitNorm ==
    /\ CodecIdle
    /\ GenIdle
    /\ PipeIdle
    /\ CliIdle
    /\ TimeIdle
    /\ sentences = <<>>
    /\ paragraph_text = ""
    /\ parpc = "off"
    /\ norm_input \in NormTexts
    /\ cleaned_text = ""
    /\ improved_text = ""
    /\ kept_sentences = <<>>
    /\ final_text = ""
    /\ again_text = ""
    /\ npc = "call"

\* process_text_cli on a text file holding norm_input: process_text, step by
\* step, and the write of its result
ProcessText ==
    /\ npc = "call"
    /\ \E cleaned \in {_clean_text(norm_input)} :
       \E improved \in {_remove_fillers(cleaned)} :
       \E kept \in {ProcessSentences(sent_tokenize(improved))} :
            /\ cleaned_text' = cleaned
            /\ improved_text' = improved
            /\ kept_sentences' = kept
            /\ final_text' = _create_paragraphs(kept)
    /\ npc' = "done"
    /\ UNCHANGED <<sentences, paragraph_text, parpc, norm_input, again_text>>
    /\ UNCHANGED <<codec_vars, gen_vars, pipe_vars, cli_vars, time_vars>>

\* process_text_cli on the file the first run wrote
ProcessAgain ==
    /\ npc = "done"
    /\ again_text' = process_text(final_text)
    /\ npc' = "again"
    /\ UNCHANGED <<sentences, paragraph_text, parpc, norm_input, cleaned_text,
                   improved_text, kept_sentences, final_text>>
    /\ UNCHANGED <<codec_vars, gen_vars, pipe_vars, cli_vars, time_vars>>

NextNorm == ProcessText \/ ProcessAgain

SpecNorm == InitNorm /\ [][NextNorm]_vars

\* the paragraphs of the text process_text returned
FinalParagraphs == IF final_text = "" THEN <<>> ELSE Split(final_text, "\n\n")

\* a token made of punctuation marks only
IsPunctuationToken(w) ==
    \A i \in 1..Len(w) : ~IsWordChar(Ch(w, i)) /\ ~IsSpace(Ch(w, i))

\* the number of tokens of a sentence that are neither punctuation nor
\* stop words
RECURSIVE CountContent(_)
CountContent(words) ==
    IF Len(words) = 0 THEN 0
    ELSE (IF IsPunctuationToken(Head(words)) \/ Head(words) \in stop_words THEN 0 ELSE 1)
         + CountContent(Tail(words))

\* C12: every paragraph of the text returned holds at least one of the kept
\* sentences, and every kept sentence has at least 2 tokens that are neither
\* punctuation nor stop words and ends with '.', '!' or '?'.
C12_SentencesWellFormed ==
    npc \in {"done", "again"} =>
        /\ (final_text = "") <=> (kept_sentences = <<>>)
        /\ \A p \in 1..Len(FinalParagraphs) :
             /\ FinalParagraphs[p] # ""
             /\ \E k \in 1..Len(kept_sentences) :
                  Contains(FinalParagraphs[p], kept_sentences[k])
        /\ \A k \in 1..Len(kept_sentences) :
             /\ CountContent(word_tokenize(Lower(kept_sentences[k]))) >= 2
             /\ EndsWithTerminal(kept_sentences[k])
             /\ Contains(final_text, kept_sentences[k])

\* C13: with --template-only the remote call is never made and the document
\* written is the template document, whether or not a key is given by
\* --api-key or by DEEPSEEK_API_KEY.
C13_TemplateOnlyNoRemote ==
    (gpc = "returned" /\ template_only) =>
        /\ remote_prompts = <<>>
        /\ outcome_seen = NoOutcome
        /\ latex_file = File(TemplateDocument)

(***************************************************************************)
(* Timecode specification: _seconds_to_srt_time renders two seconds        *)
(* values, the first not greater than the second.                          *)
(***************************************************************************)
\* the seconds values of the model: 0, half a millisecond, and around each
\* value where a field of the timecode turns over (1 second, 1 minute,
\* 1 hour, 10 hours, 100 hours) half a millisecond less, the value, and a
\* millisecond and a half more
TimeValues ==
    LET TurnOvers == {UnitsPerSecond, 60 * UnitsPerSecond, 3600 * UnitsPerSecond,
                      10 * 3600 * UnitsPerSecond, 100 * 3600 * UnitsPerSecond}
    IN {0, 1} \cup UNION {{t - 1, t, t + 3} : t \in TurnOvers}

InitTime ==
    /\ CodecIdle
    /\ GenIdle
    /\ PipeIdle
    /\ NormIdle
    /\ CliIdle
    /\ seconds_a \in TimeValues
    /\ seconds_b \in TimeValues
    /\ seconds_a <= seconds_b
    /\ timecode_a = ""
    /\ timecode_b = ""
    /\ tpc = "call"

\* the two calls of _seconds_to_srt_time for one segment (lines 102-103)
RenderTimecodes ==
    /\ tpc = "call"
    /\ timecode_a' = _seconds_to_srt_time(seconds_a)
    /\ timecode_b' = _seconds_to_srt_time(seconds_b)
    /\ tpc' = "done"
    /\ UNCHANGED <<seconds_a, seconds_b>>
    /\ UNCHANGED <<codec_vars, gen_vars, pipe_vars, norm_vars, cli_vars>>

NextTime == RenderTimecodes

SpecTime == InitTime /\ [][NextTime]_vars

\* the characters of a timecode in the order of their code points
TimecodeChars == ",0123456789:"

\* x <= y in the lexicographic order of strings
RECURSIVE LexLeq(_, _)
LexLeq(x, y) ==
    IF Len(x) = 0 THEN TRUE
    ELSE IF Len(y) = 0 THEN FALSE
    ELSE IF Ch(x, 1) = Ch(y, 1) THEN LexLeq(SubSeq(x, 2, Len(x)), SubSeq(y, 2, Len(y)))
    ELSE IndexOf(TimecodeChars, Ch(x, 1)) < IndexOf(TimecodeChars, Ch(y, 1))

\* the number a string of digits writes
RECURSIVE ParseInt(_)
ParseInt(ds) ==
    IF Len(ds) = 0 THEN 0
    ELSE ParseInt(SubSeq(ds, 1, Len(ds) - 1)) * 10
           + (IndexOf(DigitLetters, Ch(ds, Len(ds))) - 1)

\* the text of field k of a timecode: hours, minutes, seconds, milliseconds
FieldText(timecode, k) ==
    LET hms == Split(timecode, ":")
    IN IF k < 3 THEN hms[k] ELSE Split(hms[3], ",")[k - 2]

\* The timecode is the floor-based decomposition of the value t: its fields
\* add up to the whole seconds of t, minutes and seconds are below 60, and
\* the milliseconds field has three digits, lies in 0..999 and is the
\* fraction of t truncated to a millisecond.
Decomposes(timecode, t) ==
    LET hours == ParseInt(FieldText(timecode, 1))
        minutes == ParseInt(FieldText(timecode, 2))
        secs == ParseInt(FieldText(timecode, 3))
        ms == ParseInt(FieldText(timecode, 4))
    IN /\ Len(Split(timecode, ":")) = 3
       /\ Len(FieldText(timecode, 4)) = 3
       /\ ms \in 0..999
       /\ minutes \in 0..59
       /\ secs \in 0..59
       /\ hours * 3600 + minutes * 60 + secs = t \div UnitsPerSecond
       /\ ms * UnitsPerSecond <= (t % UnitsPerSecond) * 1000
       /\ (t % UnitsPerSecond) * 1000 < (ms + 1) * UnitsPerSecond

\* C14 as stated: for all values a <= b, 100 hours and more included, the
\* timecode of a is lexicographically <= that of b, and the milliseconds
\* field is in 0..999 and truncated.
C14_TimecodeMonotonic ==
    tpc = "done" =>
        /\ LexLeq(timecode_a, timecode_b)
        /\ Decomposes(timecode_a, seconds_a)
        /\ Decomposes(timecode_b, seconds_b)

\* Below 100 hours the order does hold: for all values a <= b below 100 hours
\* the timecode of a is lexicographically <= that of b, and for every value
\* the milliseconds field is in 0..999 and truncated.
MonotonicBelow100Hours ==
    tpc = "done" =>
        /\ seconds_b < 100 * 3600 * UnitsPerSecond => LexLeq(timecode_a, timecode_b)
        /\ Decomposes(timecode_a, seconds_a)
        /\ Decomposes(timecode_b, seconds_b)

(***************************************************************************)
(* Decoding specification: extract_text_from_srt reads a subtitle file of  *)
(* any content, malformed blocks included.                                 *)
(***************************************************************************)
MaxLines == 7

\* a line of the file is empty, a single space, or a text naming its
\* position, bare or with a space on either side
LineKinds == {"empty", "space", "text", "padded"}

LineAt(kind, j) ==
    IF kind = "empty" THEN ""
    ELSE IF kind = "space" THEN " "
    ELSE IF kind = "text" THEN Digits(j)
    ELSE " " \o Digits(j) \o " "

SubtitleLines ==
    {[j \in 1..Len(kinds) |-> LineAt(kinds[j], j)] : kinds \in SeqsUpTo(LineKinds, MaxLines)}

InitDecode ==
    /\ GenIdle
    /\ PipeIdle
    /\ NormIdle
    /\ CliIdle
    /\ TimeIdle
    /\ segments = <<>>
    /\ srt_file \in {File(Join("\n", lines)) : lines \in SubtitleLines}
    /\ written_index = <<>>
    /\ raw_text = ""
    /\ cpc = "decode"

NextDecode == ExtractText

SpecDecode == InitDecode /\ [][NextDecode]_vars

\* the runs of lines between the empty lines, in order
RECURSIVE LineGroups(_, _)
LineGroups(lines, current) ==
    IF Len(lines) = 0 THEN <<current>>
    ELSE IF Head(lines) = "" THEN <<current>> \o LineGroups(Tail(lines), <<>>)
    ELSE LineGroups(Tail(lines), Append(current, Head(lines)))

RECURSIVE DropBlankFront(_)
DropBlankFront(lines) ==
    IF Len(lines) > 0 /\ Strip(Head(lines)) = "" THEN DropBlankFront(Tail(lines))
    ELSE lines

RECURSIVE DropBlankBack(_)
DropBlankBack(lines) ==
    IF Len(lines) > 0 /\ Strip(lines[Len(lines)]) = ""
    THEN DropBlankBack(SubSeq(lines, 1, Len(lines) - 1))
    ELSE lines

\* the lines of a block without the white space around the block
TrimmedLines(lines) ==
    LET inner == DropBlankBack(DropBlankFront(lines))
    IN [j \in 1..Len(inner) |->
           LET front == IF j = 1 THEN LStrip(inner[j]) ELSE inner[j]
           IN IF j = Len(inner) THEN RStrip(front) ELSE front]

\* fewer than 3 lines: nothing; else the lines after the first two
Contribution(lines) ==
    IF Len(lines) < 3 THEN <<>>
    ELSE <<Join("\n", [j \in 1..(Len(lines) - 2) |-> lines[j + 2]])>>

RECURSIVE Contributions(_)
Contributions(groups) ==
    IF Len(groups) = 0 THEN <<>>
    ELSE Contribution(TrimmedLines(Head(groups))) \o Contributions(Tail(groups))

FillerFree(text) == _remove_fillers(_clean_text(text)) = _clean_text(text)

\* C16: a text T that process_text produced, with no filler left in it, is
\* returned unchanged by a second run: process_text(T) = T.
C16_Idempotent ==
    (npc = "again" /\ FillerFree(final_text)) => again_text = final_text

\* the two-word fillers of the vocabulary, in lower case
TwoWordFillers ==
    {<<"i", "mean">>, <<"you", "know">>, <<"okay", "so">>, <<"alright", "so">>,
     <<"so", "um">>}

\* the number of whole-word occurrences of a word or phrase, ignoring case
WordCount(s, word) == Cardinality({i \in 1..Len(s) : WordMatchAt(s, i, word)})

\* the raw text holds the filler, and its two words nowhere else
OnlyInPhrase(s, filler) ==
    LET phrase == filler[1] \o " " \o filler[2]
    IN /\ WordCount(s, phrase) > 0
       /\ WordCount(s, filler[1]) = WordCount(s, phrase)
       /\ WordCount(s, filler[2]) = WordCount(s, phrase)

\* C18: after cleanup followed by filler removal every whole-phrase
\* occurrence of a two-word filler of the raw text is stripped entirely:
\* where the two words occur only in the phrase, neither word remains.
C18_FillersStripped ==
    npc \in {"done", "again"} =>
        \A filler \in TwoWordFillers :
            OnlyInPhrase(norm_input, filler) =>
                /\ WordCount(improved_text, filler[1]) = 0
                /\ WordCount(improved_text, filler[2]) = 0

\* C19: when the batch is over every file whose run returned has its own
\* document and its own processed text on disk, written by its own run: no
\* later run overwrote or deleted them, also when two files share a stem.
C19_OwnArtifactsRetained ==
    bpc = "done" =>
        \A i \in 1..Len(outcomes) :
            outcomes[i] = "ok" =>
                /\ disk[latex_path(video_files[i].stem)].exists
                /\ disk[latex_path(video_files[i].stem)].by = i
                /\ disk[text_path(video_files[i].stem)].exists
                /\ disk[text_path(video_files[i].stem)].by = i

====
